---- MODULE Spec2Model ----
(***************************************************************************)
(* Model of the inline event parser of jotdown (src/src/inline.rs).        *)
(*                                                                         *)
(* The parser is driven by parse(src, last), which points the token source *)
(* at a new chunk, and next(), which yields the next finished event or     *)
(* None.  The token source (crate::lex) and the span type (crate::Span)    *)
(* are not part of inline.rs; they are modelled by what inline.rs needs of *)
(* them: a chunk is the sequence of tokens its text lexes to, each token   *)
(* is a kind and a length, and the raw remainder of a chunk is the text of *)
(* the tokens not yet consumed.                                            *)
(*                                                                         *)
(* Fields named id are history fields: they number the events in order of  *)
(* creation so that properties can speak about "the same event" after the  *)
(* queue has been popped.  No operator of the parser reads them.           *)
(***************************************************************************)
EXTENDS Integers, Sequences, FiniteSets, TLC

VARIABLES
    openers,   \* Parser.openers : Vec<(Container, usize)>
    events,    \* Parser.events  : VecDeque<Event>
    span,      \* Parser.span
    lexer,     \* Parser.lexer   : tokens of the current chunk not yet consumed
    state,     \* Parser.state
    last,      \* Parser.last
    fault,     \* TRUE once a call has panicked
    toks,      \* driver: the tokens the driver supplies, in call order
    pos,       \* driver: how many of them have been supplied
    chunks,    \* driver: number of chunks supplied, the final one included
    finalSeen, \* history: parse() has been called with last = true
    obeyed,    \* history: every parse() so far respected the chunk contract
    ret,       \* history: what the latest call returned
    out,       \* history: the events yielded so far, in order
    log,       \* history: one record per token handled by parse_event
    made       \* history: number of events created so far

vars == <<openers, events, span, lexer, state, last, fault, toks, pos, chunks,
          finalSeen, obeyed, ret, out, log, made>>

(***************************************************************************)
(* Bounds                                                                  *)
(***************************************************************************)
MaxLen == 3
MaxRawLen == 3
MaxChunks == 2
MaxContLen == 4

(***************************************************************************)
(* Tokens                                                                  *)
(***************************************************************************)
Tok(k, n) == [kind |-> k, len |-> n]

\* Kinds whose text is made of identifier characters only (no whitespace,
\* no brace), as seen by the scan of the raw remainder in parse_verbatim.
IdentKinds ==
    {"Text", "Escape", "Period", "Hyphen", "Backtick", "Dollar", "Asterisk",
     "Underscore", "Caret", "Tilde", "Quote1", "Quote2", "OpenBracket",
     "CloseBracket"}

\* Closing brace delimiters "*}", "_}", ... : one identifier character
\* followed by '}'.
CloseBraceKinds ==
    {"CloseBraceAsterisk", "CloseBraceCaret", "CloseBraceEqual",
     "CloseBraceHyphen", "CloseBracePlus", "CloseBraceTilde",
     "CloseBraceUnderscore"}

RECURSIVE IdentRun(_, _)
\* Index of the first token of s at or after i that is not made of
\* identifier characters only; Len(s) + 1 when there is none.
IdentRun(s, i) ==
    IF i > Len(s) THEN i
    ELSE IF s[i].kind \in IdentKinds THEN IdentRun(s, i + 1)
    ELSE i

RECURSIVE SumLen(_, _, _)
SumLen(s, i, j) == IF i > j THEN 0 ELSE s[i].len + SumLen(s, i + 1, j)

\* lexer.peek_ahead() read as "{=" identifier "}": the result is
\* [ok, len, rest], len the identifier's length and rest the tokens after
\* the closing brace.
RawAhead(s) ==
    IF s = <<>> \/ Head(s).kind # "OpenBraceEqual"
    THEN [ok |-> FALSE, len |-> 0, rest |-> s]
    ELSE LET j == IdentRun(s, 2)
             n == SumLen(s, 2, j - 1)
         IN  IF j > Len(s) THEN [ok |-> FALSE, len |-> 0, rest |-> s]
             ELSE IF s[j].kind = "CloseBrace" /\ n > 0
             THEN [ok |-> TRUE, len |-> n, rest |-> SubSeq(s, j + 1, Len(s))]
             ELSE IF s[j].kind \in CloseBraceKinds
             THEN [ok |-> TRUE, len |-> n + 1,
                   rest |-> SubSeq(s, j + 1, Len(s))]
             ELSE [ok |-> FALSE, len |-> 0, rest |-> s]

(***************************************************************************)
(* Events, mode state, parser record                                       *)
(***************************************************************************)
Ev(k, c, sp, i) == [kind |-> k, c |-> c, start |-> sp.start, end |-> sp.end,
                    id |-> i]
NoEvent == [kind |-> "NoEvent", c |-> "-", start |-> 0, end |-> 0, id |-> 0]

StateNone == [tag |-> "None", kind |-> "-", opener_len |-> 0,
              opener_event |-> 0, id |-> 0]
StateVerbatim(k, n, e, i) ==
    [tag |-> "Verbatim", kind |-> k, opener_len |-> n, opener_event |-> e,
     id |-> i]

\* Parser::new
NewParser ==
    [openers |-> <<>>, events |-> <<>>, span |-> [start |-> 0, end |-> 0],
     lexer |-> <<>>, state |-> StateNone, last |-> FALSE, fault |-> FALSE,
     made |-> 0]

\* Parser::parse
ParseOp(p, src, l) ==
    [p EXCEPT !.lexer = src,
              !.fault = l /\ p.last,
              !.last = IF l /\ p.last THEN p.last ELSE l]

\* Parser::eat
Eat(p) ==
    IF p.lexer = <<>> THEN p
    ELSE [p EXCEPT !.lexer = Tail(@), !.span.end = @ + Head(p.lexer).len]

\* Parser::reset_span
ResetSpan(p) == [p EXCEPT !.span = [start |-> p.span.end, end |-> p.span.end]]

\* Parser::parse_atom
ParseAtom(p, first) ==
    LET atom == CASE first.kind = "Newline" -> "Softbreak"
                  [] first.kind = "Hardbreak" -> "Hardbreak"
                  [] first.kind = "Escape" -> "Escape"
                  [] first.kind = "Nbsp" -> "Nbsp"
                  [] first.kind = "Period" /\ first.len = 3 -> "Ellipsis"
                  [] first.kind = "Hyphen" /\ first.len = 2 -> "EnDash"
                  [] first.kind = "Hyphen" /\ first.len = 3 -> "EmDash"
                  [] OTHER -> "-"
    IN  [p |-> p,
         ev |-> IF atom = "-" THEN NoEvent ELSE Ev("Atom", atom, p.span, p.made)]

\* Parser::parse_verbatim, the closing delimiter of the span has been
\* eaten: e is the opener's index and ra the scan of the raw remainder
CloseVerbatim(p, e, ra) ==
    IF p.state.kind = "Verbatim" /\ ra.ok
    THEN [p |-> [p EXCEPT !.state = StateNone,
                          !.lexer = ra.rest,
                          !.events[e + 1].c = "RawFormat",
                          !.events[e + 1].start = p.span.end + 2,
                          !.events[e + 1].end = p.span.end + 2 + ra.len,
                          !.span = [start |-> p.span.end + 2,
                                    end |-> p.span.end + 2 + ra.len]],
          ev |-> [kind |-> "Exit", c |-> "RawFormat",
                  start |-> p.span.end + 2, end |-> p.span.end + 2 + ra.len,
                  id |-> p.made]]
    ELSE [p |-> [p EXCEPT !.state = StateNone],
          ev |-> Ev("Exit", p.state.kind, p.span, p.made)]

\* Variant of VerbatimInside that closes the span at a backtick run of any
\* length
VerbatimInside_AnyLen(p, first) ==
    IF \/ p.state.opener_event >= Len(p.events)
       \/ p.events[p.state.opener_event + 1].kind # "Enter"
       \/ p.events[p.state.opener_event + 1].c # p.state.kind
    THEN [p |-> [p EXCEPT !.fault = TRUE], ev |-> NoEvent]
    ELSE IF first.kind = "Backtick"
    THEN CloseVerbatim(p, p.state.opener_event, RawAhead(p.lexer))
    ELSE [p |-> p, ev |-> Ev("Str", "-", p.span, p.made)]

\* Parser::parse_verbatim, the branch taken while state is Verbatim
VerbatimInside(p, first) ==
    IF \/ p.state.opener_event >= Len(p.events)
       \/ p.events[p.state.opener_event + 1].kind # "Enter"
       \/ p.events[p.state.opener_event + 1].c # p.state.kind
    THEN [p |-> [p EXCEPT !.fault = TRUE], ev |-> NoEvent]
    ELSE IF first.kind = "Backtick" /\ first.len = p.state.opener_len
    THEN CloseVerbatim(p, p.state.opener_event, RawAhead(p.lexer))
    ELSE [p |-> p, ev |-> Ev("Str", "-", p.span, p.made)]

\* Parser::parse_verbatim, the branch taken while state is not Verbatim.
\* The peeked token is the head of the tokens of the current chunk only.
VerbatimOpen(p, first) ==
    LET math == /\ first.kind = "Dollar"
                /\ first.len <= 2
                /\ p.lexer # <<>>
                /\ Head(p.lexer).kind = "Backtick"
        kind == IF math
                THEN (IF first.len = 2 THEN "DisplayMath" ELSE "InlineMath")
                ELSE IF first.kind = "Backtick" THEN "Verbatim" ELSE "-"
        opener_len == IF math THEN Head(p.lexer).len ELSE first.len
        p1 == IF math THEN Eat(p) ELSE p
    IN  IF kind = "-" THEN [p |-> p, ev |-> NoEvent]
        ELSE [p |-> [p1 EXCEPT !.state = StateVerbatim(kind, opener_len,
                                                       Len(p.events), p.made)],
              ev |-> Ev("Enter", kind, p1.span, p.made)]

\* Parser::parse_verbatim
ParseVerbatim(p, first) ==
    IF p.state.tag = "Verbatim" THEN VerbatimInside(p, first)
    ELSE VerbatimOpen(p, first)

\* The table of parse_container: token kind to (container, direction)
ContainerOf(k) ==
    CASE k = "Asterisk" -> [c |-> "Strong", dir |-> "Both"]
      [] k = "Underscore" -> [c |-> "Emphasis", dir |-> "Both"]
      [] k = "Caret" -> [c |-> "Superscript", dir |-> "Both"]
      [] k = "Tilde" -> [c |-> "Subscript", dir |-> "Both"]
      [] k = "Quote1" -> [c |-> "SingleQuoted", dir |-> "Both"]
      [] k = "Quote2" -> [c |-> "DoubleQuoted", dir |-> "Both"]
      [] k = "OpenBracket" -> [c |-> "Span", dir |-> "Open"]
      [] k = "CloseBracket" -> [c |-> "Span", dir |-> "Close"]
      [] k = "OpenBraceAsterisk" -> [c |-> "Strong", dir |-> "Open"]
      [] k = "CloseBraceAsterisk" -> [c |-> "Strong", dir |-> "Close"]
      [] k = "OpenBraceCaret" -> [c |-> "Superscript", dir |-> "Open"]
      [] k = "CloseBraceCaret" -> [c |-> "Superscript", dir |-> "Close"]
      [] k = "OpenBraceEqual" -> [c |-> "Mark", dir |-> "Open"]
      [] k = "CloseBraceEqual" -> [c |-> "Mark", dir |-> "Close"]
      [] k = "OpenBraceHyphen" -> [c |-> "Delete", dir |-> "Open"]
      [] k = "CloseBraceHyphen" -> [c |-> "Delete", dir |-> "Close"]
      [] k = "OpenBracePlus" -> [c |-> "Insert", dir |-> "Open"]
      [] k = "CloseBracePlus" -> [c |-> "Insert", dir |-> "Close"]
      [] k = "OpenBraceTilde" -> [c |-> "Subscript", dir |-> "Open"]
      [] k = "CloseBraceTilde" -> [c |-> "Subscript", dir |-> "Close"]
      [] k = "OpenBraceUnderscore" -> [c |-> "Emphasis", dir |-> "Open"]
      [] k = "CloseBraceUnderscore" -> [c |-> "Emphasis", dir |-> "Close"]
      [] OTHER -> [c |-> "-", dir |-> "-"]

\* Variant of RPosition that finds the first entry of cont, not the last
RPosition_First(ops, cont) ==
    LET hits == {i \in 1..Len(ops) : ops[i].c = cont}
    IN  IF hits = {} THEN 0 ELSE CHOOSE i \in hits : \A j \in hits : i <= j

\* openers.iter().rposition(|(c, _)| *c == cont), 1-based, 0 for None
RPosition(ops, cont) ==
    LET hits == {i \in 1..Len(ops) : ops[i].c = cont}
    IN  IF hits = {} THEN 0 ELSE CHOOSE i \in hits : \A j \in hits : j <= i

\* Variant of Resolve that emits Enter for an opener at once
Resolve_EnterAtOnce(p, cd, o) ==
    IF cd.c = "-" THEN [p |-> p, ev |-> NoEvent]
    ELSE IF o # 0 /\ cd.dir \in {"Close", "Both"}
    THEN IF p.openers[o].e >= Len(p.events)
         THEN [p |-> [p EXCEPT !.fault = TRUE], ev |-> NoEvent]
         ELSE [p |-> [p EXCEPT !.events[p.openers[o].e + 1].kind = "Enter",
                               !.events[p.openers[o].e + 1].c = cd.c,
                               !.openers = SubSeq(@, 1, o - 1)],
               ev |-> Ev("Exit", cd.c, p.span, p.made)]
    ELSE [p |-> [p EXCEPT !.openers =
                     Append(@, [c |-> cd.c, e |-> Len(p.events),
                                id |-> p.made])],
          ev |-> Ev("Enter", cd.c, p.span, p.made)]

\* Variant of Resolve where an Open-only delimiter closes too
Resolve_OpenCloses(p, cd, o) ==
    IF cd.c = "-" THEN [p |-> p, ev |-> NoEvent]
    ELSE IF o # 0
    THEN IF p.openers[o].e >= Len(p.events)
         THEN [p |-> [p EXCEPT !.fault = TRUE], ev |-> NoEvent]
         ELSE [p |-> [p EXCEPT !.events[p.openers[o].e + 1].kind = "Enter",
                               !.events[p.openers[o].e + 1].c = cd.c,
                               !.openers = SubSeq(@, 1, o - 1)],
               ev |-> Ev("Exit", cd.c, p.span, p.made)]
    ELSE [p |-> [p EXCEPT !.openers =
                     Append(@, [c |-> cd.c, e |-> Len(p.events),
                                id |-> p.made])],
          ev |-> Ev("Str", "-", p.span, p.made)]

\* Variant of Resolve that removes the matched entry and leaves the
\* entries above it on the stack
Resolve_RemoveOne(p, cd, o) ==
    IF cd.c = "-" THEN [p |-> p, ev |-> NoEvent]
    ELSE IF o # 0 /\ cd.dir \in {"Close", "Both"}
    THEN IF p.openers[o].e >= Len(p.events)
         THEN [p |-> [p EXCEPT !.fault = TRUE], ev |-> NoEvent]
         ELSE [p |-> [p EXCEPT !.events[p.openers[o].e + 1].kind = "Enter",
                               !.events[p.openers[o].e + 1].c = cd.c,
                               !.openers = SubSeq(@, 1, o - 1)
                                           \o SubSeq(@, o + 1, Len(@))],
               ev |-> Ev("Exit", cd.c, p.span, p.made)]
    ELSE [p |-> [p EXCEPT !.openers =
                     Append(@, [c |-> cd.c, e |-> Len(p.events),
                                id |-> p.made])],
          ev |-> Ev("Str", "-", p.span, p.made)]

\* Parser::parse_container, the closures applied to the table's result:
\* cd is the (container, direction) of the token, o the rposition of the
\* container on the opener stack
Resolve(p, cd, o) ==
    IF cd.c = "-" THEN [p |-> p, ev |-> NoEvent]
    ELSE IF o # 0 /\ cd.dir \in {"Close", "Both"}
    THEN IF p.openers[o].e >= Len(p.events)
         THEN [p |-> [p EXCEPT !.fault = TRUE], ev |-> NoEvent]
         ELSE [p |-> [p EXCEPT !.events[p.openers[o].e + 1].kind = "Enter",
                               !.events[p.openers[o].e + 1].c = cd.c,
                               !.openers = SubSeq(@, 1, o - 1)],
               ev |-> Ev("Exit", cd.c, p.span, p.made)]
    ELSE [p |-> [p EXCEPT !.openers =
                     Append(@, [c |-> cd.c, e |-> Len(p.events),
                                id |-> p.made])],
          ev |-> Ev("Str", "-", p.span, p.made)]

\* Parser::parse_container
ParseContainer(p, first) ==
    Resolve(p, ContainerOf(first.kind),
            RPosition(p.openers, ContainerOf(first.kind).c))

\* The chain of parse_event: the first of v (parse_verbatim), c
\* (parse_container), a (parse_atom) that is an event, else Str; a panic
\* ends the chain
FirstEvent(p1, first, v, c, a) ==
    LET r == IF v.p.fault \/ v.ev.kind # "NoEvent" THEN v
             ELSE IF c.p.fault \/ c.ev.kind # "NoEvent" THEN c
             ELSE IF a.ev.kind # "NoEvent" THEN a
             ELSE [p |-> p1, ev |-> Ev("Str", "-", p1.span, p1.made)]
    IN  [p |-> r.p, ev |-> r.ev, tok |-> first]

\* Parser::parse_event after reset_span; tok is the token eaten, "NoTok"
\* when there is none
EatEvent(p0, p1) ==
    IF p0.lexer = <<>>
    THEN [p |-> p0, ev |-> NoEvent, tok |-> Tok("NoTok", 0)]
    ELSE FirstEvent(p1, Head(p0.lexer),
                    ParseVerbatim(p1, Head(p0.lexer)),
                    ParseContainer(p1, Head(p0.lexer)),
                    ParseAtom(p1, Head(p0.lexer)))

\* Parser::parse_event
ParseEvent(p) == EatEvent(ResetSpan(p), Eat(ResetSpan(p)))

\* Variant of MustParse that does not wait for the opener stack to empty
MustParse_NoOpeners(p) ==
    \/ p.events = <<>>
    \/ p.state.tag # "None"
    \/ p.events[Len(p.events)].kind = "Str"

\* The condition of the while loop of next
MustParse(p) ==
    \/ p.events = <<>>
    \/ p.openers # <<>>
    \/ p.state.tag # "None"
    \/ p.events[Len(p.events)].kind = "Str"

\* One record of the history of tokens handled; rew: the ids of the queued
\* events the token rewrote
LogEntry(p, r) ==
    [tok |-> r.tok, st |-> p.state, st2 |-> r.p.state, ops |-> p.openers,
     ops2 |-> r.p.openers, qlen |-> Len(p.events), ev |-> r.ev,
     last |-> p.last, lex |-> p.lexer, lex2 |-> r.p.lexer,
     sp |-> p.span, sp2 |-> r.p.span,
     rew |-> {p.events[i].id : i \in {j \in DOMAIN p.events :
                                        r.p.events[j] # p.events[j]}}]

RECURSIVE Fill(_, _)
\* The body of the while loop of next: r is the result of parse_event
FillStep(p, lg, r) ==
    IF r.p.fault
    THEN [p |-> r.p, need_more |-> FALSE, log |-> lg]
    ELSE IF r.ev.kind = "NoEvent"
    THEN [p |-> r.p, need_more |-> TRUE, log |-> lg]
    ELSE Fill([r.p EXCEPT !.events = Append(@, r.ev), !.made = @ + 1],
              Append(lg, LogEntry(p, r)))

\* The while loop of next: parse events until one is finished or the
\* token source is exhausted
Fill(p, lg) ==
    IF MustParse(p) THEN FillStep(p, lg, ParseEvent(p))
    ELSE [p |-> p, need_more |-> FALSE, log |-> lg]

\* What next returns: an event with the ids of the queue events it is made
\* of, or None
Yielded(k, c, s, e, ids) ==
    [kind |-> k, c |-> c, start |-> s, end |-> e, ids |-> ids]
None == Yielded("None", "-", 0, 0, {})

RECURSIVE MergeStr(_, _)
\* The merge loop of next; y is the Str built so far
MergeStr(p, y) ==
    IF p.events # <<>> /\ Head(p.events).kind = "Str"
    THEN IF y.end # Head(p.events).start
         THEN [p |-> [p EXCEPT !.fault = TRUE], ret |-> None]
         ELSE MergeStr([p EXCEPT !.events = Tail(@)],
                       [y EXCEPT !.start = IF Head(p.events).start < @
                                           THEN Head(p.events).start ELSE @,
                                 !.end = IF Head(p.events).end > @
                                         THEN Head(p.events).end ELSE @,
                                 !.ids = @ \cup {Head(p.events).id}])
    ELSE [p |-> p, ret |-> y]

\* Variant of PopFront that yields a Str without merging
PopFront_NoMerge(q, e) ==
    [p |-> q, ret |-> Yielded(e.kind, e.c, e.start, e.end, {e.id})]

\* The closure applied to the event popped from the front of the queue: q
\* is the parser after the pop
PopFront(q, e) ==
    IF e.kind = "Str"
    THEN MergeStr(q, Yielded(e.kind, e.c, e.start, e.end, {e.id}))
    ELSE [p |-> q, ret |-> Yielded(e.kind, e.c, e.start, e.end, {e.id})]

\* Variant of Pop that pops although more input is needed
Pop_NoGuard(p, need_more) ==
    IF p.events # <<>>
    THEN PopFront([p EXCEPT !.events = Tail(@)], Head(p.events))
    ELSE IF p.state.tag = "Verbatim" /\ p.last
    THEN [p |-> [p EXCEPT !.state = StateNone],
          ret |-> Yielded("Exit", p.state.kind, p.span.start, p.span.end, {})]
    ELSE [p |-> p, ret |-> None]

\* Variant of Pop that leaves the mode Verbatim after the synthesized Exit
Pop_NoReset(p, need_more) ==
    IF p.last \/ ~need_more
    THEN IF p.events # <<>>
         THEN PopFront([p EXCEPT !.events = Tail(@)], Head(p.events))
         ELSE IF p.state.tag = "Verbatim"
         THEN [p |-> p,
               ret |-> Yielded("Exit", p.state.kind, p.span.start, p.span.end,
                               {})]
         ELSE [p |-> p, ret |-> None]
    ELSE [p |-> p, ret |-> None]

\* Variant of Pop that empties the queue when more input is needed
Pop_ClearOnSuspend(p, need_more) ==
    IF p.last \/ ~need_more
    THEN IF p.events # <<>>
         THEN PopFront([p EXCEPT !.events = Tail(@)], Head(p.events))
         ELSE IF p.state.tag = "Verbatim"
         THEN [p |-> [p EXCEPT !.state = StateNone],
               ret |-> Yielded("Exit", p.state.kind, p.span.start, p.span.end,
                               {})]
         ELSE [p |-> p, ret |-> None]
    ELSE [p |-> [p EXCEPT !.events = <<>>], ret |-> None]

\* The part of next after the while loop
Pop(p, need_more) ==
    IF p.last \/ ~need_more
    THEN IF p.events # <<>>
         THEN PopFront([p EXCEPT !.events = Tail(@)], Head(p.events))
         ELSE IF p.state.tag = "Verbatim"
         THEN [p |-> [p EXCEPT !.state = StateNone],
               ret |-> Yielded("Exit", p.state.kind, p.span.start, p.span.end,
                               {})]
         ELSE [p |-> p, ret |-> None]
    ELSE [p |-> p, ret |-> None]

\* The result of next: f is the result of the loop, y of the rest; atpop
\* is the parser when the loop ended
NextResult(f, y) ==
    [p |-> y.p, ret |-> y.ret, need_more |-> f.need_more, log |-> f.log,
     atpop |-> f.p]

\* Parser::next after the while loop; a panic in the loop ends the call
AfterFill(f) ==
    IF f.p.fault THEN NextResult(f, [p |-> f.p, ret |-> None])
    ELSE NextResult(f, Pop(f.p, f.need_more))

\* Parser::next
NextOp(p) == AfterFill(Fill(p, <<>>))

(***************************************************************************)
(* The parser as a record of the variables, and the driver                 *)
(***************************************************************************)
P == [openers |-> openers, events |-> events, span |-> span, lexer |-> lexer,
      state |-> state, last |-> last, fault |-> fault, made |-> made]

SetP(q) ==
    /\ openers' = q.openers
    /\ events' = q.events
    /\ span' = q.span
    /\ lexer' = q.lexer
    /\ state' = q.state
    /\ last' = q.last
    /\ fault' = q.fault
    /\ made' = q.made

SeqsUpTo(S, n) == UNION {[1..k -> S] : k \in 0..n}

\* A run of backticks or dollars is one token: no chunk lexes to two
\* adjacent runs of the same character.
WellLexed(s) ==
    \A i \in 1..(Len(s) - 1) :
        s[i].kind \in {"Backtick", "Dollar"} => s[i + 1].kind # s[i].kind

Alphabet ==
    {Tok("Text", 1), Tok("Newline", 1), Tok("Backtick", 1), Tok("Dollar", 1),
     Tok("Underscore", 1), Tok("OpenBraceAsterisk", 2),
     Tok("CloseBraceAsterisk", 2)}

RawAlphabet ==
    {Tok("Text", 1), Tok("Whitespace", 1), Tok("Backtick", 1),
     Tok("OpenBraceEqual", 2), Tok("CloseBrace", 1)}

\* A closed verbatim span, the stem of the inputs about raw formats
VerbatimStem == <<Tok("Backtick", 1), Tok("Text", 1), Tok("Backtick", 1)>>

\* Runs of backticks and dollars of several lengths
VerbatimAlphabet ==
    {Tok("Text", 1), Tok("Backtick", 1), Tok("Backtick", 2), Tok("Dollar", 1),
     Tok("Dollar", 2), Tok("Dollar", 3)}

\* Container delimiters only, for the longer inputs that nest containers
ContainerAlphabet ==
    {Tok("Text", 1), Tok("Underscore", 1), Tok("OpenBraceAsterisk", 2),
     Tok("CloseBraceAsterisk", 2)}

\* A closed inline math span
MathStem ==
    <<Tok("Dollar", 1), Tok("Backtick", 1), Tok("Text", 1), Tok("Backtick", 1)>>

\* The start of a raw format annotation
Annotation == <<Tok("OpenBraceEqual", 2)>>

\* Two verbatim spans, each with a raw format annotation
TwoAnnotations ==
    VerbatimStem \o Annotation \o <<Tok("Text", 1), Tok("CloseBrace", 1)>>
    \o VerbatimStem \o Annotation \o <<Tok("Text", 1), Tok("CloseBrace", 1)>>

Inputs ==
    {s \in SeqsUpTo(Alphabet, MaxLen) : WellLexed(s)}
    \cup {TwoAnnotations}
    \cup {VerbatimStem \o Annotation \o t :
              t \in {u \in SeqsUpTo(RawAlphabet, MaxRawLen) : WellLexed(u)}}
    \cup {MathStem \o Annotation \o t :
              t \in {u \in SeqsUpTo(RawAlphabet, MaxRawLen - 1) : WellLexed(u)}}
    \cup {s \in SeqsUpTo(VerbatimAlphabet, MaxLen) : WellLexed(s)}
    \cup SeqsUpTo(ContainerAlphabet, MaxContLen)

Init ==
    /\ openers = NewParser.openers
    /\ events = NewParser.events
    /\ span = NewParser.span
    /\ lexer = NewParser.lexer
    /\ state = NewParser.state
    /\ last = NewParser.last
    /\ fault = NewParser.fault
    /\ made = NewParser.made
    /\ toks \in Inputs
    /\ pos = 0
    /\ chunks = 0
    /\ finalSeen = FALSE
    /\ obeyed = TRUE
    /\ ret = [call |-> "new", some |-> FALSE, exh |-> FALSE]
    /\ out = <<>>
    /\ log = <<>>

\* parse(src, last) under the chunk contract: the next n tokens are
\* supplied after next() returned None; a non-final chunk is not empty and
\* leaves tokens for a later one, the final chunk takes all the rest
ParseCall(n, l) ==
    /\ ~fault
    /\ ~finalSeen
    /\ chunks = 0 \/ (ret.call = "next" /\ ~ret.some)
    /\ chunks < MaxChunks
    /\ pos + n <= Len(toks)
    /\ l => pos + n = Len(toks)
    /\ ~l => (n > 0 /\ pos + n < Len(toks))
    /\ chunks = MaxChunks - 1 => l
    /\ SetP(ParseOp(P, SubSeq(toks, pos + 1, pos + n), l))
    /\ pos' = pos + n
    /\ chunks' = chunks + 1
    /\ finalSeen' = l
    /\ ret' = [call |-> "parse", some |-> FALSE, exh |-> FALSE]
    /\ UNCHANGED <<toks, obeyed, out, log>>

\* parse(src, last) called once more after a final chunk that was the only
\* one, when next() has returned None
ParseAfterFinal(src, l) ==
    /\ ~fault
    /\ finalSeen
    /\ chunks = 1
    /\ obeyed
    /\ ret.call = "next" /\ ~ret.some
    /\ SetP(ParseOp(P, src, l))
    /\ toks' = toks \o src
    /\ pos' = pos + Len(src)
    /\ obeyed' = FALSE
    /\ ret' = [call |-> "parse", some |-> FALSE, exh |-> FALSE]
    /\ UNCHANGED <<chunks, finalSeen, out, log>>

\* parse(src, true) called with the rest of the input before next() has
\* returned None for the first chunk
ParseEarly ==
    /\ ~fault
    /\ ~finalSeen
    /\ chunks = 1
    /\ ~(ret.call = "next" /\ ~ret.some)
    /\ pos < Len(toks)
    /\ SetP(ParseOp(P, SubSeq(toks, pos + 1, Len(toks)), TRUE))
    /\ pos' = Len(toks)
    /\ chunks' = chunks + 1
    /\ finalSeen' = TRUE
    /\ obeyed' = FALSE
    /\ ret' = [call |-> "parse", some |-> FALSE, exh |-> FALSE]
    /\ UNCHANGED <<toks, out, log>>

\* The driver's record of a call of next() with result r
Deliver(r) ==
    /\ SetP(r.p)
    /\ ret' = [call |-> "next", some |-> r.ret.kind # "None",
               exh |-> r.need_more]
    /\ out' = IF r.ret.kind = "None" THEN out
              ELSE Append(out, [ev |-> r.ret, exh |-> r.need_more,
                                ops |-> r.atpop.openers,
                                st |-> r.atpop.state,
                                q |-> r.atpop.events,
                                last |-> r.atpop.last,
                                logLen |-> Len(log) + Len(r.log)])
    /\ log' = log \o r.log

\* next()
NextCall ==
    /\ ~fault
    /\ Deliver(NextOp(P))
    /\ UNCHANGED <<toks, pos, chunks, finalSeen, obeyed>>

Next ==
    \/ \E n \in 0..Len(toks), l \in BOOLEAN : ParseCall(n, l)
    \/ \E src \in {<<Tok("Text", 1)>>}, l \in BOOLEAN :
           ParseAfterFinal(src, l)
    \/ ParseEarly
    \/ NextCall

Spec == Init /\ [][Next]_vars

(***************************************************************************)
(* Vocabulary of the properties                                            *)
(***************************************************************************)
\* The final chunk has been supplied under the contract and next() has
\* returned None
Drained ==
    obeyed /\ finalSeen /\ ~fault /\ ret.call = "next" /\ ~ret.some

Shape(y) == [kind |-> y.kind, c |-> y.c, start |-> y.start, end |-> y.end]

\* The events yielded so far, kind and span
Yields == [i \in DOMAIN out |-> Shape(out[i].ev)]

RECURSIVE Drain(_, _)
DrainStep(r, acc) ==
    IF r.p.fault \/ r.ret.kind = "None" THEN acc
    ELSE Drain(r.p, Append(acc, Shape(r.ret)))

\* The events yielded by calling next() on p until it returns None
Drain(p, acc) == DrainStep(NextOp(p), acc)

\* The events yielded when s is supplied as one final chunk
Whole(s) == Drain(ParseOp(NewParser, s, TRUE), <<>>)

TotalLen(s) == SumLen(s, 1, Len(s))

\* C1: chunking equivalence.  Once the input has been supplied in chunks
\* and drained, the events yielded (kind and span) are those yielded when
\* the whole input is supplied as one final chunk.
C1_ChunkingEquivalence == Drained => Yields = Whole(toks)

\* C2: span tiling.  Once the input is drained, the spans of the yielded
\* events, in order, start at 0, each start at the end of the previous one,
\* and end at the length of the input.
C2_SpanTiling ==
    Drained =>
        /\ out = <<>> => TotalLen(toks) = 0
        /\ out # <<>> =>
              /\ out[1].ev.start = 0
              /\ out[Len(out)].ev.end = TotalLen(toks)
              /\ \A i \in 1..(Len(out) - 1) : out[i + 1].ev.start = out[i].ev.end
              /\ \A i \in DOMAIN out : out[i].ev.start <= out[i].ev.end

\* C3: no fault.  As long as the driver respects the chunk contract, no
\* call panics: the assertions of next and parse_verbatim hold and every
\* index into the event queue is in range.
C3_NoFault == obeyed => ~fault

C3_Witness ==
    /\ Drained
    /\ chunks >= 2
    /\ \E i \in DOMAIN out :
           out[i].ev.kind = "Str" /\ Cardinality(out[i].ev.ids) >= 2
    /\ \E k \in DOMAIN log :
           log[k].st.tag = "Verbatim" /\ log[k].ev.kind = "Exit"

\* C4: after parse() has been called with last = true, any later call of
\* parse() is fatal.
C4_FinalIsFinal == [][(finalSeen /\ obeyed /\ ~obeyed') => fault']_vars

\* The kind and container now carried by the event numbered id, in the
\* queue or among the yielded events
EvNow(id) ==
    IF \E i \in DOMAIN events : events[i].id = id
    THEN LET i == CHOOSE i \in DOMAIN events : events[i].id = id
         IN  [kind |-> events[i].kind, c |-> events[i].c]
    ELSE IF \E i \in DOMAIN out : id \in out[i].ev.ids
    THEN LET i == CHOOSE i \in DOMAIN out : id \in out[i].ev.ids
         IN  [kind |-> out[i].ev.kind, c |-> out[i].ev.c]
    ELSE [kind |-> "NoEvent", c |-> "-"]

\* C5: only finished events are yielded.  An event returned by a call of
\* next() that did not exhaust the token source was popped with the opener
\* stack empty, the mode None and the last queued event not Str; a Str was
\* followed in the queue by an event that is not Str; no opener entry and
\* no verbatim opener index refers to it, and no token handled later
\* rewrites it.
C5_OnlyFinished ==
    \A i \in DOMAIN out :
        ~out[i].exh =>
            /\ out[i].ops = <<>>
            /\ out[i].st.tag = "None"
            /\ out[i].q # <<>>
            /\ out[i].q[Len(out[i].q)].kind # "Str"
            /\ out[i].ev.kind = "Str" =>
                   /\ Cardinality(out[i].ev.ids) < Len(out[i].q)
                   /\ out[i].q[Cardinality(out[i].ev.ids) + 1].kind # "Str"
            /\ \A j \in DOMAIN openers : openers[j].id \notin out[i].ev.ids
            /\ state.tag = "Verbatim" => state.id \notin out[i].ev.ids
            /\ \A k \in DOMAIN log :
                   k > out[i].logLen => log[k].rew \cap out[i].ev.ids = {}

C5_Witness ==
    \E i \in DOMAIN out :
        /\ ~out[i].exh
        /\ Len(log) > out[i].logLen
        /\ \E k \in DOMAIN log : k > out[i].logLen /\ log[k].rew # {}

\* What is left for next() to yield from the current chunk: it bounds the
\* number of events still to come
Measure ==
    2 * Len(lexer) + Len(events) + (IF state.tag = "Verbatim" THEN 1 ELSE 0)

C6_NoneOnlyExhausted ==
    (ret.call = "next" /\ ~ret.some) =>
        /\ ret.exh
        /\ lexer = <<>>
        /\ last => (events = <<>> /\ state.tag = "None")

\* C6: suspension and termination.  (1) On a non-final chunk next() returns
\* None only when the call exhausted the token source.  (2) On the final
\* chunk next() returns None only with the token source exhausted, the
\* queue empty and the mode None.  (3) On the final chunk every next() that
\* returns an event decreases Measure, so that finitely many events are
\* returned before None, and a next() after that None returns None and
\* changes nothing.
C6_Protocol ==
    /\ []C6_NoneOnlyExhausted
    /\ [][(last /\ obeyed' /\ ret'.call = "next") =>
              /\ ret'.some => Measure' < Measure
              /\ (ret.call = "next" /\ ~ret.some) =>
                     /\ ~ret'.some
                     /\ UNCHANGED <<openers, events, span, lexer, state, last,
                                    fault, out>>]_vars

C6_Witness ==
    /\ Drained
    /\ chunks >= 2
    /\ Len(out) >= 3

\* The topmost entry of the stack ops of container c, 0 when there is none
Topmost(ops, c) ==
    IF \E i \in DOMAIN ops : ops[i].c = c
    THEN CHOOSE i \in DOMAIN ops :
             ops[i].c = c /\ \A j \in DOMAIN ops : ops[j].c = c => j <= i
    ELSE 0

\* C7: a Close-only delimiter handled outside verbatim mode with no entry
\* of its container on the opener stack is emitted as Str, pushes nothing
\* on the stack and is never rewritten to Enter.
C7_UnopenedCloserIsStr ==
    \A k \in DOMAIN log :
        LET cd == ContainerOf(log[k].tok.kind)
        IN  (/\ log[k].st.tag = "None"
             /\ cd.dir = "Close"
             /\ Topmost(log[k].ops, cd.c) = 0) =>
                /\ log[k].ev.kind = "Str"
                /\ log[k].ops2 = log[k].ops
                /\ EvNow(log[k].ev.id).kind = "Str"

\* C8: innermost match with discard.  A Close-only or Toggle delimiter of
\* container c handled outside verbatim mode with an entry of c on the
\* stack matches the topmost such entry o: the placeholder of o, which was
\* Str, is rewritten to Enter(c), the stack is cut to the entries below o,
\* the token is Exit(c), and the placeholders of the entries above o are
\* Str for good.
C8_InnermostMatch ==
    \A k \in DOMAIN log :
        LET cd == ContainerOf(log[k].tok.kind)
            o  == Topmost(log[k].ops, cd.c)
        IN  (/\ log[k].st.tag = "None"
             /\ cd.dir \in {"Close", "Both"}
             /\ o # 0) =>
                /\ log[k].ev.kind = "Exit" /\ log[k].ev.c = cd.c
                /\ log[k].ops2 = SubSeq(log[k].ops, 1, o - 1)
                /\ log[k].rew = {log[k].ops[o].id}
                /\ EvNow(log[k].ops[o].id) = [kind |-> "Enter", c |-> cd.c]
                /\ \E m \in 1..(k - 1) :
                       /\ log[m].ev.id = log[k].ops[o].id
                       /\ log[m].ev.kind = "Str"
                /\ \A j \in (o + 1)..Len(log[k].ops) :
                       EvNow(log[k].ops[j].id).kind = "Str"

C8_Witness ==
    /\ Drained
    /\ \E k \in DOMAIN log :
           LET cd == ContainerOf(log[k].tok.kind)
               o  == Topmost(log[k].ops, cd.c)
           IN  /\ log[k].st.tag = "None"
               /\ cd.dir \in {"Close", "Both"}
               /\ o # 0
               /\ o < Len(log[k].ops)

NonVerbatim ==
    {"Span", "Subscript", "Superscript", "Insert", "Delete", "Emphasis",
     "Strong", "Mark", "SingleQuoted", "DoubleQuoted"}

Count(k, c) ==
    Cardinality({i \in DOMAIN out : out[i].ev.kind = k /\ out[i].ev.c = c})

\* s is made of text and of delimiters that can open a container
OnlyTextAndOpeners(s) ==
    \A i \in DOMAIN s :
        \/ s[i].kind \in {"Text", "Whitespace"}
        \/ ContainerOf(s[i].kind).dir \in {"Open", "Both"}

\* No token handled so far has closed a container
NeverClosed == \A k \in DOMAIN log : log[k].ev.kind # "Exit"

\* C9: unmatched openers stay literal.  Once the input is drained, the
\* placeholder of every entry left on the opener stack has been yielded
\* inside a Str, every non-verbatim container has as many Enter as Exit
\* events, and an input of text and of openers none of which was closed has
\* yielded one Str covering the whole input.
C9_UnmatchedStayLiteral ==
    Drained =>
        /\ \A j \in DOMAIN openers :
               \E i \in DOMAIN out :
                   out[i].ev.kind = "Str" /\ openers[j].id \in out[i].ev.ids
        /\ \A c \in NonVerbatim : Count("Enter", c) = Count("Exit", c)
        /\ (toks # <<>> /\ OnlyTextAndOpeners(toks) /\ NeverClosed) =>
               Yields = <<[kind |-> "Str", c |-> "-", start |-> 0,
                           end |-> TotalLen(toks)]>>

C9_Witness ==
    /\ Drained
    /\ chunks >= 2
    /\ Len(openers) >= 2
    /\ OnlyTextAndOpeners(toks)
    /\ NeverClosed
    /\ \E i \in DOMAIN toks : toks[i].kind = "Text"

\* C10: verbatim auto-close.  Once the input is drained: if the final chunk
\* was exhausted in Verbatim mode the last event yielded is a synthesized
\* Exit of the mode's kind with an empty span at the end of the input, and
\* the mode is None; an Exit with an empty span is yielded in no other
\* case: only on the final chunk, only for the kind of the mode, and once.
Synthesized(i) == out[i].ev.kind = "Exit" /\ out[i].ev.start = out[i].ev.end

C10_AutoClose ==
    /\ \A i \in DOMAIN out :
           Synthesized(i) =>
               /\ out[i].last /\ out[i].exh
               /\ out[i].st.tag = "Verbatim" /\ out[i].st.kind = out[i].ev.c
               /\ out[i].q = <<>>
               /\ out[i].ev.ids = {}
               /\ \A j \in DOMAIN out : Synthesized(j) => j = i
    /\ Drained =>
           /\ state.tag = "None"
           /\ \A i \in DOMAIN out :
                  (out[i].exh /\ out[i].last /\ out[i].st.tag = "Verbatim") =>
                      /\ Synthesized(Len(out))
                      /\ out[Len(out)].ev.c = out[i].st.kind
                      /\ out[Len(out)].ev.end = TotalLen(toks)

\* C11: verbatim mode is opaque.  A token consumed while the mode is
\* Verbatim gives an Exit exactly when it is a run of backticks of the
\* opener's length and a Str otherwise, never an Atom, an Enter or a
\* placeholder, and leaves the opener stack as it was.
C11_VerbatimOpaque ==
    \A k \in DOMAIN log :
        log[k].st.tag = "Verbatim" =>
            /\ log[k].ev.kind \in {"Exit", "Str"}
            /\ log[k].ev.kind = "Exit" <=>
                   (/\ log[k].tok.kind = "Backtick"
                    /\ log[k].tok.len = log[k].st.opener_len)
            /\ log[k].ev.kind = "Exit" <=> log[k].st2.tag = "None"
            /\ log[k].ops2 = log[k].ops
            /\ \A i \in DOMAIN openers : openers[i].id # log[k].ev.id

\* Inside a verbatim span a run of backticks of another length was
\* consumed and gave a Str
C11_Witness ==
    /\ ~fault
    /\ \E k \in DOMAIN log :
           /\ log[k].st.tag = "Verbatim"
           /\ log[k].tok.kind = "Backtick"
           /\ log[k].tok.len # log[k].st.opener_len
           /\ log[k].ev.kind = "Str"


\* The number of tokens the log's entry e took from the token source
Taken(e) == Len(e.lex) - Len(e.lex2)

RECURSIVE TakenBefore(_)
\* The number of tokens taken before the log's k-th entry
TakenBefore(k) ==
    IF k = 1 THEN 0 ELSE TakenBefore(k - 1) + Taken(log[k - 1])

\* The token of the input that follows the first token of the log's k-th
\* entry, when the driver respects the chunk contract
Following(k) ==
    IF TakenBefore(k) + 2 <= Len(toks) THEN toks[TakenBefore(k) + 2]
    ELSE Tok("NoTok", 0)

\* A dollar run of length 1 or 2 with a backtick run right after it
MathOpener(k) ==
    /\ log[k].tok.kind = "Dollar"
    /\ log[k].tok.len <= 2
    /\ Following(k).kind = "Backtick"

\* C12: opening a verbatim span.  Outside verbatim mode a backtick run of
\* length L gives Enter(Verbatim) with closing length L; a dollar run of
\* length 1 (2) with a backtick run of length L right after it gives one
\* Enter(InlineMath) (Enter(DisplayMath)) spanning both, with closing
\* length L; any other dollar run opens nothing and gives a Str.
C12_Opening ==
    obeyed =>
        \A k \in DOMAIN log :
            log[k].st.tag = "None" =>
                /\ log[k].tok.kind = "Backtick" =>
                       /\ log[k].ev.kind = "Enter"
                       /\ log[k].ev.c = "Verbatim"
                       /\ log[k].ev.end - log[k].ev.start = log[k].tok.len
                       /\ log[k].st2.tag = "Verbatim"
                       /\ log[k].st2.kind = "Verbatim"
                       /\ log[k].st2.opener_len = log[k].tok.len
                /\ MathOpener(k) =>
                       /\ log[k].ev.kind = "Enter"
                       /\ log[k].ev.c = (IF log[k].tok.len = 2
                                         THEN "DisplayMath" ELSE "InlineMath")
                       /\ log[k].ev.end - log[k].ev.start
                              = log[k].tok.len + Following(k).len
                       /\ log[k].st2.tag = "Verbatim"
                       /\ log[k].st2.kind = log[k].ev.c
                       /\ log[k].st2.opener_len = Following(k).len
                /\ (log[k].tok.kind = "Dollar" /\ ~MathOpener(k)) =>
                       /\ log[k].ev.kind = "Str"
                       /\ log[k].st2.tag = "None"
                       /\ log[k].ops2 = log[k].ops


\* The span now carried by the event numbered id, which is not a Str
SpanNow(id) ==
    IF \E i \in DOMAIN events : events[i].id = id
    THEN LET i == CHOOSE i \in DOMAIN events : events[i].id = id
         IN  [start |-> events[i].start, end |-> events[i].end]
    ELSE LET i == CHOOSE i \in DOMAIN out : id \in out[i].ev.ids
         IN  [start |-> out[i].ev.start, end |-> out[i].ev.end]

\* The tokens s start with "{=", an identifier that is not empty and has
\* no whitespace and no brace, and "}", which ends with token j
Annotated(s, j) ==
    /\ j \in 2..Len(s)
    /\ s[1].kind = "OpenBraceEqual"
    /\ \A i \in 2..(j - 1) : s[i].kind \in IdentKinds
    /\ \/ s[j].kind = "CloseBrace" /\ j > 2
       \/ s[j].kind \in CloseBraceKinds

\* The log's k-th entry closed a span
Closes(k) == log[k].st.tag = "Verbatim" /\ log[k].ev.kind = "Exit"

\* The log's k-th entry closed a span and rewrote it to a raw format
Rewrote(k) ==
    /\ log[k].ev.c = "RawFormat"
    /\ EvNow(log[k].st.id) = [kind |-> "Enter", c |-> "RawFormat"]
    /\ log[k].rew = {log[k].st.id}

\* C13: the raw format rewrite.  A closed span is rewritten, opener to
\* Enter(RawFormat) and closer to Exit(RawFormat), both with the span of
\* the identifier in the input, exactly when its kind is Verbatim and the
\* rest of the current chunk starts with "{=", an identifier and "}", and
\* then the token source resumes after the "}"; in every other case the
\* opener keeps Enter(kind) and its span, the closer is Exit(kind) and the
\* token source is where it was.
C13_RawFormat ==
    obeyed =>
      \A k \in DOMAIN log :
        Closes(k) =>
            IF /\ log[k].st.kind = "Verbatim"
               /\ \E j \in DOMAIN Tail(log[k].lex) :
                      Annotated(Tail(log[k].lex), j)
            THEN LET s == Tail(log[k].lex)
                     j == CHOOSE j \in DOMAIN s : Annotated(s, j)
                     n == SumLen(s, 2, j) - 1
                     at == SumLen(toks, 1, TakenBefore(k) + 1) + 2
                 IN  /\ Rewrote(k)
                     /\ log[k].ev.start = at /\ log[k].ev.end = at + n
                     /\ SpanNow(log[k].st.id) = [start |-> at, end |-> at + n]
                     /\ log[k].lex2 = SubSeq(s, j + 1, Len(s))
            ELSE /\ log[k].ev.c = log[k].st.kind
                 /\ EvNow(log[k].st.id) = [kind |-> "Enter",
                                           c |-> log[k].st.kind]
                 /\ \E o \in DOMAIN log :
                        /\ log[o].ev.id = log[k].st.id
                        /\ SpanNow(log[k].st.id) = [start |-> log[o].ev.start,
                                                    end |-> log[o].ev.end]
                 /\ log[k].rew = {}
                 /\ log[k].lex2 = Tail(log[k].lex)


\* The number of Str events at the front of the queue q
RECURSIVE StrRun(_)
StrRun(q) ==
    IF q # <<>> /\ Head(q).kind = "Str" THEN 1 + StrRun(Tail(q)) ELSE 0

\* C14: maximal Str merging.  No two events yielded one after the other are
\* both Str; a yielded Str is made of the whole run of Str events at the
\* front of the queue and its span is the union of theirs; an event that is
\* not a Str is one queued event, or none for the synthesized Exit.
C14_MaximalStr ==
    /\ \A i \in 1..(Len(out) - 1) :
           ~(out[i].ev.kind = "Str" /\ out[i + 1].ev.kind = "Str")
    /\ \A i \in DOMAIN out :
           IF out[i].ev.kind = "Str"
           THEN LET n == StrRun(out[i].q)
                IN  /\ n >= 1
                    /\ out[i].ev.ids = {out[i].q[j].id : j \in 1..n}
                    /\ out[i].ev.start = out[i].q[1].start
                    /\ out[i].ev.end = out[i].q[n].end
                    /\ \A j \in 1..n :
                           /\ out[i].ev.start <= out[i].q[j].start
                           /\ out[i].q[j].end <= out[i].ev.end
                    /\ \A j \in 1..(n - 1) :
                           out[i].q[j].end = out[i].q[j + 1].start
           ELSE Cardinality(out[i].ev.ids) <= 1

\* A Str made of two queued events or more was yielded, and then an event
\* that is not a Str
C14_Witness ==
    /\ ~fault
    /\ \E i \in 1..(Len(out) - 1) :
           /\ out[i].ev.kind = "Str"
           /\ Cardinality(out[i].ev.ids) >= 2
           /\ out[i + 1].ev.kind # "Str"


\* C15: the opener stack indexes the queue.  Between calls that respect
\* the chunk contract, the draining after the final chunk included, every
\* entry of the opener stack has an index inside the event queue, and the
\* event there is a Str, the placeholder made for that entry: no entry
\* refers to a position that has been popped.
C15_StackIndexesQueue ==
    (obeyed /\ ~fault) =>
        \A i \in DOMAIN openers :
            /\ openers[i].e < Len(events)
            /\ events[openers[i].e + 1].kind = "Str"
            /\ events[openers[i].e + 1].id = openers[i].id


\* next() has returned None for a chunk that is not the final one
Suspended == ~fault /\ ret.call = "next" /\ ~ret.some /\ ~last

\* The call of next() with result r returned None and changed nothing
Idle(r) == r.ret = None /\ r.p = P

\* C16: no event is lost or duplicated.  Every event appended to the queue
\* is in one yielded event or at one queue position, never both, and the
\* events are yielded, and wait in the queue, in the order they were
\* appended in.  When next() returns None for a chunk that is not final, the
\* opener stack and the mode are as parsing left them, and one more next()
\* without a new chunk returns None and changes nothing.
C16_NothingLost ==
    /\ ~fault =>
           /\ \A id \in 0..(made - 1) :
                  \/ \E i \in DOMAIN out : id \in out[i].ev.ids
                  \/ \E i \in DOMAIN events : events[i].id = id
           /\ \A i \in DOMAIN events :
                  /\ events[i].id \in 0..(made - 1)
                  /\ i < Len(events) => events[i].id < events[i + 1].id
           /\ \A i \in DOMAIN out :
                  \A a \in out[i].ev.ids :
                      /\ a \in 0..(made - 1)
                      /\ events # <<>> => a < events[1].id
                      /\ \A j \in (i + 1)..Len(out) :
                             \A b \in out[j].ev.ids : a < b
    /\ (Suspended /\ obeyed /\ log # <<>>) =>
           /\ openers = log[Len(log)].ops2
           /\ state = log[Len(log)].st2
    /\ Suspended => Idle(NextOp(P))

\* next() has returned None for a chunk that is not final, after an event
\* was yielded, with events in the queue and entries on the opener stack
C16_Witness ==
    /\ Suspended
    /\ obeyed
    /\ out # <<>>
    /\ events # <<>>
    /\ openers # <<>>


\* C17: the cumulative offset.  Between calls that respect the chunk
\* contract the end of the parser's span is the length of the input
\* consumed so far, the tokens of a raw format annotation included; it
\* never decreases from one parsed token to the next and parse() does not
\* reset it.
C17_Offset ==
    (obeyed /\ ~fault) =>
        /\ span.end = SumLen(toks, 1, pos - Len(lexer))
        /\ \A k \in DOMAIN log :
               /\ log[k].sp.end <= log[k].sp2.end
               /\ k < Len(log) => log[k].sp2.end = log[k + 1].sp.end


\* The log's k-th entry pushed an entry of container c for its token, at
\* the position its placeholder has in the queue, and made that
\* placeholder a Str
Pushed(k, c) ==
    /\ log[k].ev.kind = "Str"
    /\ log[k].ops2 = Append(log[k].ops, [c |-> c, e |-> log[k].qlen,
                                         id |-> log[k].ev.id])
    /\ log[k].rew = {}

\* C18: opening.  Outside verbatim mode an Open-only delimiter of
\* container c pushes (c, queue length) and gives a Str placeholder,
\* whether or not c is on the opener stack: it is never an Exit and removes
\* no entry.  A Toggle delimiter does the same exactly when no entry of c
\* is on the stack, and otherwise closes the topmost entry of c.
C18_Opening ==
    \A k \in DOMAIN log :
        LET cd == ContainerOf(log[k].tok.kind)
            o  == Topmost(log[k].ops, cd.c)
        IN  log[k].st.tag = "None" =>
                /\ cd.dir = "Open" => Pushed(k, cd.c)
                /\ (cd.dir = "Both" /\ o = 0) => Pushed(k, cd.c)
                /\ (cd.dir = "Both" /\ o # 0) =>
                       /\ log[k].ev.kind = "Exit"
                       /\ log[k].ev.c = cd.c
                       /\ log[k].ops2 = SubSeq(log[k].ops, 1, o - 1)
                       /\ log[k].rew = {log[k].ops[o].id}

\* An Open-only delimiter was handled with an entry of its container on
\* the stack, and a Toggle delimiter closed an entry
C18_Witness ==
    /\ ~fault
    /\ \E k \in DOMAIN log :
           /\ log[k].st.tag = "None"
           /\ ContainerOf(log[k].tok.kind).dir = "Open"
           /\ Topmost(log[k].ops, ContainerOf(log[k].tok.kind).c) # 0
    /\ \E k \in DOMAIN log :
           /\ log[k].st.tag = "None"
           /\ ContainerOf(log[k].tok.kind).dir = "Both"
           /\ log[k].ev.kind = "Exit"


RECURSIVE TakenOf(_)
\* The tokens taken from the token source by the entries of the log lg, in
\* order
TakenOf(lg) ==
    IF lg = <<>> THEN <<>>
    ELSE SubSeq(Head(lg).lex, 1, Taken(Head(lg))) \o TakenOf(Tail(lg))

\* C19: no input is dropped by supplying a chunk.  Whatever the order of
\* the calls of parse() and next(), the tokens supplied so far are those
\* taken by the parser followed by those waiting in the token source: each
\* was or will be taken once, in the order supplied.
C19_NoInputDropped ==
    ~fault => TakenOf(log) \o lexer = SubSeq(toks, 1, pos)


\* The kinds of span whose content is not parsed
VerbatimKinds == {"Verbatim", "RawFormat", "InlineMath", "DisplayMath"}

RECURSIVE Nested(_, _)
\* The yielded events from the i-th on are well nested, stk being the
\* containers open before the i-th, innermost last: an Enter is not inside
\* a span whose content is not parsed, an Exit closes the innermost open
\* container, and nothing is open at the end
Nested(i, stk) ==
    IF i > Len(out) THEN stk = <<>>
    ELSE IF out[i].ev.kind = "Enter"
    THEN /\ stk # <<>> => stk[Len(stk)] \notin VerbatimKinds
         /\ Nested(i + 1, Append(stk, out[i].ev.c))
    ELSE IF out[i].ev.kind = "Exit"
    THEN /\ stk # <<>>
         /\ stk[Len(stk)] = out[i].ev.c
         /\ Nested(i + 1, SubSeq(stk, 1, Len(stk) - 1))
    ELSE Nested(i + 1, stk)

\* C20: well nested output.  Once the input is drained, the Enter and Exit
\* events yielded are properly nested: every Exit(c) closes the innermost
\* open Enter, which is an Enter(c), every Enter(c) has its Exit(c), and no
\* Enter lies between the Enter and the Exit of a Verbatim, RawFormat,
\* InlineMath or DisplayMath span.
C20_WellNested == Drained => Nested(1, <<>>)

\* The input is drained and a container was yielded inside another one
C20_Witness ==
    /\ Drained
    /\ \E i \in 1..(Len(out) - 3) :
           /\ out[i].ev.kind = "Enter"
           /\ out[i + 1].ev.kind = "Enter"
           /\ out[i + 2].ev.kind = "Exit"
           /\ out[i + 3].ev.kind = "Exit"

============================================================================
